---------------------------- MODULE Spec2Model ----------------------------
(***************************************************************************)
(* Model of superplot's one-dimensional statistics (statslib/one_dim.py). *)
(*                                                                         *)
(* Every function of the module is pure.  The state machine holds the     *)
(* arguments of the call in progress (call), its outcome (ret) and the     *)
(* position of the caller (pc): a caller that is idle makes one call,      *)
(* looks at the outcome and goes back to idle.                             *)
(*                                                                         *)
(* Floating-point numbers are modelled by exact extended rationals        *)
(* <<n, d>> with d >= 0 in lowest terms: d = 0 gives IEEE's special values *)
(* <<1, 0>> = +inf, <<-1, 0>> = -inf and <<0, 0>> = NaN.  Rounding is not  *)
(* modelled.                                                               *)
(***************************************************************************)
EXTENDS Integers, Sequences, FiniteSets

VARIABLES pc, call, ret

vars == <<pc, call, ret>>

(***************************************************************************)
(* Bounds of the model.                                                    *)
(***************************************************************************)
MaxLen  == 2    \* longest chain of posterior_pdf and posterior_median
MaxChain == 3   \* longest chain of prof_data
MaxVal  == 1    \* parameter values are 0..MaxVal
MaxChi  == 1    \* chi-squared values are 0..MaxChi
MaxW    == 3    \* posterior weights are 0/4 .. MaxW/4
MaxBins == 3    \* bin counts of the histograms are -1..MaxBins
MaxPdfBins == 3 \* a pdf or profile handed to the summaries has 0..MaxPdfBins bins
MaxPdf  == 2    \* entries of a pdf handed to the summaries are 0..MaxPdf

(***************************************************************************)
(* Extended rationals.                                                     *)
(***************************************************************************)
Abs(x) == IF x < 0 THEN -x ELSE x

Sign(x) == IF x < 0 THEN -1 ELSE IF x > 0 THEN 1 ELSE 0

RECURSIVE GCD(_, _)
GCD(a, b) == IF b = 0 THEN a ELSE GCD(b, a % b)

Norm(n, d) ==
    IF d = 0 THEN <<Sign(n), 0>>
    ELSE LET g == GCD(Abs(n), d) IN <<n \div g, d \div g>>

ToF(x) == <<x, 1>>

Inf  == <<1, 0>>
NaN  == <<0, 0>>
Zero == <<0, 1>>
One  == <<1, 1>>
Half == <<1, 2>>

IsNaN(a) == a = NaN
IsFinite(a) == a[2] # 0

FNeg(a) == <<-a[1], a[2]>>

FAdd(a, b) ==
    IF IsNaN(a) \/ IsNaN(b) THEN NaN
    ELSE IF a[2] = 0 /\ b[2] = 0 THEN (IF a = b THEN a ELSE NaN)
    ELSE IF a[2] = 0 THEN a
    ELSE IF b[2] = 0 THEN b
    ELSE Norm(a[1] * b[2] + b[1] * a[2], a[2] * b[2])

FSub(a, b) == FAdd(a, FNeg(b))

FMul(a, b) ==
    IF IsNaN(a) \/ IsNaN(b) THEN NaN
    ELSE Norm(a[1] * b[1], a[2] * b[2])

\* IEEE division: x/0 is +-inf, 0/0 and inf/inf are NaN (numpy warns, it
\* does not raise).
FDiv(a, b) ==
    IF IsNaN(a) \/ IsNaN(b) THEN NaN
    ELSE IF a[2] = 0 /\ b[2] = 0 THEN NaN
    ELSE IF b[1] = 0 THEN <<Sign(a[1]), 0>>
    ELSE Norm(a[1] * b[2] * Sign(b[1]), a[2] * Abs(b[1]))

\* Comparisons with NaN are false.
FLt(a, b) ==
    /\ ~IsNaN(a)
    /\ ~IsNaN(b)
    /\ a # b
    /\ IF a[2] = 0 /\ b[2] = 0 THEN a[1] < b[1]
       ELSE a[1] * b[2] < b[1] * a[2]

FLe(a, b) == ~IsNaN(a) /\ ~IsNaN(b) /\ (a = b \/ FLt(a, b))

FGt(a, b) == FLt(b, a)

FGe(a, b) == FLe(b, a)

FAbs(a) == <<Abs(a[1]), a[2]>>

(***************************************************************************)
(* Outcomes of a call.                                                     *)
(***************************************************************************)
Ok(v, w) == [status |-> "ok", error |-> "", value |-> v, warnings |-> w]

Raise(e) == [status |-> "error", error |-> e, value |-> <<>>, warnings |-> <<>>]

NoCall == [fn |-> "none"]

NoRet == Raise("none")

\* bin_limits=None
None == <<>>

\* F(x), with x evaluated once.
Value(x, F(_)) == CHOOSE r \in {F(v) : v \in {x}} : TRUE

(***************************************************************************)
(* Array helpers.                                                          *)
(***************************************************************************)
\* Python's builtin sum(): a left fold of + starting at 0.
RECURSIVE SumUpTo(_, _)
SumUpTo(a, n) == IF n = 0 THEN Zero ELSE FAdd(SumUpTo(a, n - 1), a[n])

PySum(a) == SumUpTo(a, Len(a))

\* Python's builtin max(): keeps the first element and replaces it by every
\* later element that compares greater.
RECURSIVE PyMaxUpTo(_, _)
PyMaxUpTo(a, n) ==
    IF n = 1 THEN a[1]
    ELSE LET m == PyMaxUpTo(a, n - 1) IN IF FGt(a[n], m) THEN a[n] ELSE m

PyMax(a) == PyMaxUpTo(a, Len(a))

\* numpy's ndarray.min() and ndarray.max() of a non-empty array: NaN if an
\* entry is NaN.
NpMin(a) ==
    IF \E i \in 1..Len(a) : IsNaN(a[i]) THEN NaN
    ELSE a[CHOOSE i \in 1..Len(a) : \A j \in 1..Len(a) : FLe(a[i], a[j])]

NpMax(a) ==
    IF \E i \in 1..Len(a) : IsNaN(a[i]) THEN NaN
    ELSE a[CHOOSE i \in 1..Len(a) : \A j \in 1..Len(a) : FGe(a[i], a[j])]

(***************************************************************************)
(* numpy.histogram(a, bins, range, weights, density), as posterior_pdf and *)
(* prof_data call it: an integer number of equal-width bins.               *)
(***************************************************************************)
\* OuterEdges that leaves equal limits as they are.
OuterEdgesNoWiden(parameter, bin_limits) ==
    IF bin_limits # None THEN <<ToF(bin_limits[1]), ToF(bin_limits[2])>>
    ELSE IF Len(parameter) = 0 THEN <<Zero, One>>
    ELSE <<NpMin([i \in 1..Len(parameter) |-> ToF(parameter[i])]),
           NpMax([i \in 1..Len(parameter) |-> ToF(parameter[i])])>>

\* The limits of the bins: the range given, else the extremes of the data
\* (0 and 1 for no data); equal limits are moved apart by a half each.
OuterEdges(parameter, bin_limits) ==
    LET first == IF bin_limits # None THEN ToF(bin_limits[1])
                 ELSE IF Len(parameter) = 0 THEN Zero
                 ELSE NpMin([i \in 1..Len(parameter) |-> ToF(parameter[i])])
        last  == IF bin_limits # None THEN ToF(bin_limits[2])
                 ELSE IF Len(parameter) = 0 THEN One
                 ELSE NpMax([i \in 1..Len(parameter) |-> ToF(parameter[i])])
    IN  IF first = last THEN <<FSub(first, Half), FAdd(last, Half)>>
        ELSE <<first, last>>

\* linspace(first, last, nbins + 1)
BinEdges(parameter, nbins, bin_limits) ==
    LET lim   == OuterEdges(parameter, bin_limits)
        width == FDiv(FSub(lim[2], lim[1]), ToF(nbins))
    IN  [k \in 1..(nbins + 1) |-> FAdd(lim[1], FMul(ToF(k - 1), width))]

\* Bins are half-open, but for the last, which holds its right edge too.
InBin(x, k, edges) ==
    /\ FLe(edges[k], x)
    /\ IF k = Len(edges) - 1 THEN FLe(x, edges[k + 1]) ELSE FLt(x, edges[k + 1])

HistError(nbins, bin_limits) ==
    IF nbins < 1 THEN "ValueError: bins must be positive"
    ELSE IF bin_limits # None /\ bin_limits[1] > bin_limits[2]
         THEN "ValueError: max must be larger than min"
    ELSE ""

\* The pair (hist, bin_edges); weights are the per-sample contributions.
\* With density the counts are divided by the bin widths and by their sum.
HistogramOver(edges, parameter, nbins, weights, density) ==
    LET n     == [k \in 1..nbins |->
                    PySum([i \in 1..Len(parameter) |->
                        IF InBin(ToF(parameter[i]), k, edges)
                        THEN weights[i] ELSE Zero])]
        db    == [k \in 1..nbins |-> FSub(edges[k + 1], edges[k])]
    IN  <<IF density
          THEN [k \in 1..nbins |-> FDiv(FDiv(n[k], db[k]), PySum(n))]
          ELSE n,
          edges>>

Histogram(parameter, nbins, bin_limits, weights, density) ==
    Value(BinEdges(parameter, nbins, bin_limits),
          LAMBDA edges : HistogramOver(edges, parameter, nbins, weights, density))

\* (bin_edges[:-1] + bin_edges[1:]) * 0.5
BinCenters(bin_edges) ==
    [k \in 1..(Len(bin_edges) - 1) |->
        FMul(FAdd(bin_edges[k], bin_edges[k + 1]), Half)]

(***************************************************************************)
(* posterior_pdf                                                           *)
(***************************************************************************)
\* pdf / pdf.max(), unless the area is normed
NormMax(pdf, norm_area) ==
    IF ~norm_area
    THEN Value(NpMax(pdf), LAMBDA max : [k \in 1..Len(pdf) |-> FDiv(pdf[k], max)])
    ELSE pdf

\* value.hist is the weighted histogram before the division by its maximum:
\* a local of the function, kept for the properties.
PosteriorPdfOf(h, norm_area) ==
    Ok([pdf |-> NormMax(h[1], norm_area), bin_centers |-> BinCenters(h[2]),
        hist |-> h[1], bin_edges |-> h[2]], <<>>)

posterior_pdf(parameter, posterior, nbins, bin_limits, norm_area) ==
    IF HistError(nbins, bin_limits) # "" THEN Raise(HistError(nbins, bin_limits))
    ELSE Value(Histogram(parameter, nbins, bin_limits, posterior, norm_area),
               LAMBDA h : PosteriorPdfOf(h, norm_area))

(***************************************************************************)
(* posterior_median                                                        *)
(***************************************************************************)
\* np.cumsum(posterior)
Cumsum(posterior) == [i \in 1..Len(posterior) |-> SumUpTo(posterior, i)]

SetMax(S) == CHOOSE x \in S : \A y \in S : y <= x

SetMin(S) == CHOOSE x \in S : \A y \in S : x <= y

posterior_median(parameter, posterior) ==
    LET cumulative == Cumsum(posterior)
        lower == {i \in 1..Len(cumulative) : FLe(cumulative[i], Half)}
        upper == {i \in 1..Len(cumulative) : FGe(cumulative[i], Half)}
    IN  IF lower = {} \/ upper = {} THEN Raise("IndexError: list index out of range")
        ELSE LET index_lower == SetMax(lower)
                 index_upper == SetMin(upper)
             IN  IF index_lower = index_upper
                 THEN Ok(ToF(parameter[index_lower]), <<>>)
                 ELSE Ok(FDiv(FAdd(ToF(parameter[index_lower]),
                                   ToF(parameter[index_upper])), ToF(2)), <<>>)

(***************************************************************************)
(* posterior_mode                                                          *)
(***************************************************************************)
\* MaxIndices that stops at the first bin with the maximum.
MaxIndicesFirst(pdf, max_count, n) ==
    IF \E i \in 1..n : pdf[i] = max_count
    THEN <<SetMin({i \in 1..n : pdf[i] = max_count})>>
    ELSE <<>>

\* [i for i, j in enumerate(pdf) if j == max_count], in ascending order
RECURSIVE MaxIndices(_, _, _)
MaxIndices(pdf, max_count, n) ==
    IF n = 0 THEN <<>>
    ELSE LET rest == MaxIndices(pdf, max_count, n - 1)
         IN  IF ~IsNaN(pdf[n]) /\ pdf[n] = max_count THEN Append(rest, n) ELSE rest

posterior_mode(pdf, bin_centers) ==
    IF Len(pdf) = 0 THEN Raise("ValueError: max() arg is an empty sequence")
    ELSE
    LET max_count   == PyMax(pdf)
        max_indices == MaxIndices(pdf, max_count, Len(pdf))
    IN  Ok([i \in 1..Len(max_indices) |-> bin_centers[max_indices[i]]],
           IF Len(max_indices) > 1
           THEN <<[warning |-> "posterior_mode: max count shared by bins",
                   count |-> Len(max_indices)]>>
           ELSE <<>>)

(***************************************************************************)
(* prof_data                                                               *)
(***************************************************************************)
\* Digitize with bins closed on the right (digitize's right=True).
DigitizeRight(x, bin_edges) ==
    Cardinality({k \in 1..Len(bin_edges) : FLt(bin_edges[k], x)})

\* np.digitize(x, bin_edges): the i with bin_edges[i-1] <= x < bin_edges[i],
\* 0 below the first edge and len(bin_edges) from the last edge on.
Digitize(x, bin_edges) ==
    Cardinality({k \in 1..Len(bin_edges) : FLe(bin_edges[k], x)})

\* point.shift(bin_number, nbins): folds the two outlier bins of digitize
\* into the first and the last bin and numbers the bins from 0.
shift(bin_number, nbins) ==
    IF bin_number = 0 THEN 0
    ELSE IF bin_number = nbins + 1 THEN nbins - 1
    ELSE bin_number - 1

BinNumbers(parameter, bin_edges, nbins) ==
    [i \in 1..Len(parameter) |->
        shift(Digitize(ToF(parameter[i]), bin_edges), nbins)]

\* ProfLoop without the comparison: the last sample of a bin wins.
RECURSIVE ProfLoopLast(_, _, _, _)
ProfLoopLast(chi_sq, bin_numbers, prof_chi_sq, size) ==
    IF size = 0 THEN prof_chi_sq
    ELSE [ProfLoopLast(chi_sq, bin_numbers, prof_chi_sq, size - 1)
            EXCEPT ![bin_numbers[size] + 1] = chi_sq[size]]

\* The loop over the chain: the running minimum of each bin.  Bins are
\* numbered from 0, the array is indexed from 1.
RECURSIVE ProfLoop(_, _, _, _)
ProfLoop(chi_sq, bin_numbers, prof_chi_sq, size) ==
    IF size = 0 THEN prof_chi_sq
    ELSE LET prev == ProfLoop(chi_sq, bin_numbers, prof_chi_sq, size - 1)
             bin_number == bin_numbers[size] + 1
         IN  IF FLt(chi_sq[size], prev[bin_number])
             THEN [prev EXCEPT ![bin_number] = chi_sq[size]]
             ELSE prev

\* ShiftToMin that subtracts nothing.
ShiftToMinNone(prof_chi_sq) == prof_chi_sq

\* prof_chi_sq - prof_chi_sq.min()
ShiftToMin(prof_chi_sq) ==
    [k \in 1..Len(prof_chi_sq) |-> FSub(prof_chi_sq[k], NpMin(prof_chi_sq))]

\* np.exp(x), kept symbolic: exp(-inf) = 0, exp(0) = 1, exp(NaN) = NaN.
NpExp(x) == [exp |-> x]

prof_data(parameter, chi_sq, nbins, bin_limits) ==
    IF HistError(nbins, bin_limits) # "" THEN Raise(HistError(nbins, bin_limits))
    ELSE
    LET ones        == [i \in 1..Len(parameter) |-> One]
        bin_edges   == Histogram(parameter, nbins, bin_limits, ones, FALSE)[2]
        bin_centers == BinCenters(bin_edges)
        bin_numbers == BinNumbers(parameter, bin_edges, nbins)
        minimized   == ProfLoop([i \in 1..Len(chi_sq) |-> ToF(chi_sq[i])],
                                bin_numbers, [k \in 1..nbins |-> Inf], Len(chi_sq))
        prof_chi_sq == ShiftToMin(minimized)
        prof_like   == [k \in 1..nbins |-> NpExp(FMul(<<-1, 2>>, prof_chi_sq[k]))]
    IN  Ok([prof_chi_sq |-> prof_chi_sq, prof_like |-> prof_like,
            bin_centers |-> bin_centers,
            bin_edges |-> bin_edges, bin_numbers |-> bin_numbers], <<>>)

\* np.digitize of an empty chain depends on the numpy installed: older
\* releases raise "Both x and bins must have non-zero length", later ones
\* return an empty array.
ProfDataOutcomes(parameter, chi_sq, nbins, bin_limits) ==
    {prof_data(parameter, chi_sq, nbins, bin_limits)} \cup
    IF HistError(nbins, bin_limits) = "" /\ Len(parameter) = 0
    THEN {Raise("ValueError: Both x and bins must have non-zero length")}
    ELSE {}

(***************************************************************************)
(* credible_region                                                         *)
(***************************************************************************)
\* DesiredProb with the two regions exchanged.
DesiredProbSwapped(alpha, region) ==
    IF region = "lower" THEN FSub(One, FMul(Half, alpha))
    ELSE FMul(Half, alpha)

DesiredProb(alpha, region) ==
    IF region = "lower" THEN FMul(Half, alpha)
    ELSE FSub(One, FMul(Half, alpha))

\* pdf / sum(pdf)
NormalizeSum(pdf) == [k \in 1..Len(pdf) |-> FDiv(pdf[k], PySum(pdf))]

\* Integrate that stops when the sum reaches desired_prob.
RECURSIVE IntegrateGe(_, _, _)
IntegrateGe(pdf, desired_prob, index) ==
    IF index > Len(pdf) THEN 0
    ELSE IF FGe(SumUpTo(pdf, index), desired_prob) THEN index
    ELSE IntegrateGe(pdf, desired_prob, index + 1)

\* The for loop: the first index, from `index` on, whose sum(pdf[:index + 1])
\* is greater than desired_prob; 0 if the loop ends without a break.
RECURSIVE Integrate(_, _, _)
Integrate(pdf, desired_prob, index) ==
    IF index > Len(pdf) THEN 0
    ELSE IF FGt(SumUpTo(pdf, index), desired_prob) THEN index
    ELSE Integrate(pdf, desired_prob, index + 1)

credible_region(pdf, bin_centers, alpha, region) ==
    IF region \notin {"lower", "upper"} THEN Raise("AssertionError")
    ELSE
    LET desired_prob == DesiredProb(alpha, region)
        normed       == NormalizeSum(pdf)
        index        == Integrate(normed, desired_prob, 1)
        prob         == SumUpTo(normed, index)
    IN  IF index = 0 THEN Raise("RuntimeError: Could not find credible region")
        ELSE Ok([credible_region |-> bin_centers[index], index |-> index],
                IF FGt(FAbs(FSub(prob, desired_prob)), <<1, 100>>)
                THEN <<[warning |-> "Increase number of bins"]>>
                ELSE <<>>)

(***************************************************************************)
(* conf_interval                                                           *)
(***************************************************************************)
\* stats.chi2.ppf(1 - alpha, 1) at the levels the model uses, to four
\* decimal places.
Chi2Ppf(alpha) ==
    CASE alpha = Zero      -> Inf
      [] alpha = <<1, 20>> -> <<38415, 10000>>
      [] alpha = <<8, 25>> -> <<9889, 10000>>
      [] alpha = Half      -> <<4549, 10000>>
      [] alpha = One       -> Zero

\* Included with delta <= critical.
IncludedLe(delta, critical_chi_sq) == FLe(delta, critical_chi_sq)

\* delta_chi_sq[index] < critical_chi_sq
Included(delta, critical_chi_sq) == FLt(delta, critical_chi_sq)

conf_interval(chi_sq, bin_centers, alpha) ==
    IF Len(chi_sq) = 0
    THEN Raise("ValueError: zero-size array to reduction operation minimum")
    ELSE
    LET critical_chi_sq == Chi2Ppf(alpha)
        delta_chi_sq    == ShiftToMin(chi_sq)
    IN  Ok([index \in 1..Len(delta_chi_sq) |->
                IF Included(delta_chi_sq[index], critical_chi_sq)
                THEN bin_centers[index] ELSE NaN], <<>>)
(***************************************************************************)
(* Inputs.                                                                 *)
(***************************************************************************)
Lengths == 0..MaxLen

\* A data column of parameter values.
Columns(n) == [1..n -> 0..MaxVal]

ChiSqColumns(n) == [1..n -> 0..MaxChi]

\* Posterior weights, in quarters.
WeightColumns(n) == [1..n -> {Norm(w, 4) : w \in 0..MaxW}]

BinCounts == (-1)..MaxBins

\* No limits, limits the wrong way round, equal limits, and limits that
\* leave samples below and above them.
BinLimits == {None, <<1, 0>>, <<1, 1>>, <<0, 1>>, <<1, 2>>}

\* A pdf over n bins, and the centers of n bins of width 1 from c0 on.
Pdfs(n) == [1..n -> {ToF(v) : v \in 0..MaxPdf}]

Centers(c0, n) == BinCenters([k \in 1..(n + 1) |-> ToF(c0 + k - 1)])

\* A profiled chi-squared, as prof_data returns it.
ProfChiSqs(n) == [1..n -> {ToF(v) : v \in 0..MaxChi} \cup {Inf, NaN}]

Alphas == {Zero, <<1, 20>>, <<8, 25>>, Half, One}

Regions == {"lower", "upper", "both"}

\* The calls of each function: its arguments, drawn from the inputs.
PosteriorPdfCall ==
    \E n \in Lengths, nbins \in BinCounts, bin_limits \in BinLimits,
       norm_area \in BOOLEAN :
        \E parameter \in Columns(n), posterior \in [1..n -> {Zero, <<1, 4>>, Half}] :
            call = [fn |-> "posterior_pdf", parameter |-> parameter,
                    posterior |-> posterior, nbins |-> nbins,
                    bin_limits |-> bin_limits, norm_area |-> norm_area]

PosteriorMedianCall ==
    \E n \in Lengths :
        \E parameter \in Columns(n), posterior \in WeightColumns(n) :
            call = [fn |-> "posterior_median", parameter |-> parameter,
                    posterior |-> posterior]

PosteriorModeCall ==
    \E n \in 0..MaxPdfBins, c0 \in 0..1 :
        \E pdf \in Pdfs(n) :
            call = [fn |-> "posterior_mode", pdf |-> pdf,
                    bin_centers |-> Centers(c0, n)]

ProfDataCall ==
    \E n \in 0..MaxChain, nbins \in BinCounts, bin_limits \in BinLimits :
        \E parameter \in Columns(n), chi_sq \in ChiSqColumns(n) :
            call = [fn |-> "prof_data", parameter |-> parameter,
                    chi_sq |-> chi_sq, nbins |-> nbins,
                    bin_limits |-> bin_limits]

CredibleRegionCall ==
    \E n \in 0..MaxPdfBins, c0 \in 0..1, alpha \in Alphas, region \in Regions :
        \E pdf \in Pdfs(n) :
            call = [fn |-> "credible_region", pdf |-> pdf,
                    bin_centers |-> Centers(c0, n), alpha |-> alpha,
                    region |-> region]

ConfIntervalCall ==
    \E n \in 0..MaxPdfBins, c0 \in 0..1, alpha \in Alphas :
        \E chi_sq \in ProfChiSqs(n) :
            call = [fn |-> "conf_interval", chi_sq |-> chi_sq,
                    bin_centers |-> Centers(c0, n), alpha |-> alpha]

(***************************************************************************)
(* The state machine: a call is made with its arguments (pc = "called"),   *)
(* the function runs to its end and leaves its outcome (pc = "done").      *)
(***************************************************************************)
Called ==
    /\ pc = "called"
    /\ ret = NoRet

Done(outcome) ==
    /\ ret' = outcome
    /\ pc' = "done"
    /\ UNCHANGED call

PosteriorPdf ==
    /\ pc = "called"
    /\ call.fn = "posterior_pdf"
    /\ Done(posterior_pdf(call.parameter, call.posterior, call.nbins,
                          call.bin_limits, call.norm_area))

PosteriorMedian ==
    /\ pc = "called"
    /\ call.fn = "posterior_median"
    /\ Done(posterior_median(call.parameter, call.posterior))

PosteriorMode ==
    /\ pc = "called"
    /\ call.fn = "posterior_mode"
    /\ Done(posterior_mode(call.pdf, call.bin_centers))

ProfData ==
    /\ pc = "called"
    /\ call.fn = "prof_data"
    /\ \E outcome \in ProfDataOutcomes(call.parameter, call.chi_sq, call.nbins,
                                       call.bin_limits) : Done(outcome)

CredibleRegion ==
    /\ pc = "called"
    /\ call.fn = "credible_region"
    /\ Done(credible_region(call.pdf, call.bin_centers, call.alpha, call.region))

ConfInterval ==
    /\ pc = "called"
    /\ call.fn = "conf_interval"
    /\ Done(conf_interval(call.chi_sq, call.bin_centers, call.alpha))

Init ==
    /\ Called
    /\ \/ PosteriorPdfCall
       \/ PosteriorMedianCall
       \/ PosteriorModeCall
       \/ ProfDataCall
       \/ CredibleRegionCall
       \/ ConfIntervalCall

Next ==
    \/ PosteriorPdf
    \/ PosteriorMedian
    \/ PosteriorMode
    \/ ProfData
    \/ CredibleRegion
    \/ ConfInterval

Spec == Init /\ [][Next]_vars

\* One specification for each function, and one for the two that bin.
InitPosteriorPdf == Called /\ PosteriorPdfCall

SpecPosteriorPdf == InitPosteriorPdf /\ [][PosteriorPdf]_vars

InitPosteriorMedian == Called /\ PosteriorMedianCall

SpecPosteriorMedian == InitPosteriorMedian /\ [][PosteriorMedian]_vars

InitPosteriorMode == Called /\ PosteriorModeCall

SpecPosteriorMode == InitPosteriorMode /\ [][PosteriorMode]_vars

InitProfData == Called /\ ProfDataCall

SpecProfData == InitProfData /\ [][ProfData]_vars

InitCredibleRegion == Called /\ CredibleRegionCall

SpecCredibleRegion == InitCredibleRegion /\ [][CredibleRegion]_vars

InitConfInterval == Called /\ ConfIntervalCall

SpecConfInterval == InitConfInterval /\ [][ConfInterval]_vars

NextBinning == PosteriorPdf \/ ProfData

InitBinning == Called /\ (PosteriorPdfCall \/ ProfDataCall)

SpecBinning == InitBinning /\ [][NextBinning]_vars

(***************************************************************************)
(* Properties of prof_data.                                                *)
(***************************************************************************)
ProfDataReturned ==
    /\ pc = "done"
    /\ call.fn = "prof_data"
    /\ ret.status = "ok"

\* The samples assigned to bin b (bins numbered from 1).
Assigned(b) ==
    {i \in 1..Len(call.parameter) : ret.value.bin_numbers[i] = b - 1}

\* The least chi-squared among the samples of S, a non-empty set.
MinChiSq(S) == CHOOSE m \in {call.chi_sq[i] : i \in S} :
                   \A i \in S : m <= call.chi_sq[i]

\* What the profiled chi-squared should be: each bin's minimum less the least
\* of the bins' minima, +inf for a bin without samples.
ProfChiSqIsShiftedBinMinimum ==
    \A b \in 1..call.nbins :
        IF Assigned(b) # {}
        THEN ret.value.prof_chi_sq[b] =
                ToF(MinChiSq(Assigned(b)) - MinChiSq(1..Len(call.parameter)))
        ELSE ret.value.prof_chi_sq[b] = Inf

C2_EverySampleBinned ==
    ProfDataReturned =>
        /\ Len(ret.value.bin_numbers) = Len(call.parameter)
        /\ \A i \in 1..Len(call.parameter) :
            LET x == ToF(call.parameter[i])
                b == ret.value.bin_numbers[i]
                e == ret.value.bin_edges
            IN  /\ b \in 0..(call.nbins - 1)
                /\ FLt(x, e[1]) => b = 0
                /\ FGe(x, e[call.nbins + 1]) => b = call.nbins - 1
                /\ \A k \in 1..call.nbins :
                      FLe(e[k], x) /\ FLt(x, e[k + 1]) => b = k - 1

\* Two bins or more, a sample below the limits, and a sample on an inner edge.
C2_Witness ==
    /\ ProfDataReturned
    /\ call.nbins > 1
    /\ \E i \in 1..Len(call.parameter) :
          FLt(ToF(call.parameter[i]), ret.value.bin_edges[1])
    /\ \E i \in 1..Len(call.parameter), k \in 2..call.nbins :
          ToF(call.parameter[i]) = ret.value.bin_edges[k]

\* exp(x) = 0, exp(x) = 1 and 0 <= exp(x) <= 1 of the symbolic exponential.
ExpIsZero(y) == y.exp = FNeg(Inf)

ExpIsOne(y) == y.exp = Zero

ExpInUnitInterval(y) == FLe(y.exp, Zero)

ProfileIsNormalized ==
    /\ NpMin(ret.value.prof_chi_sq) = Zero
    /\ \A b \in 1..call.nbins :
        /\ FGe(ret.value.prof_chi_sq[b], Zero)
        /\ ExpInUnitInterval(ret.value.prof_like[b])
        /\ ret.value.prof_chi_sq[b] = Zero => ExpIsOne(ret.value.prof_like[b])
        /\ Assigned(b) = {} => ExpIsZero(ret.value.prof_like[b])
    /\ \E b \in 1..call.nbins : ExpIsOne(ret.value.prof_like[b])

Binned ==
    /\ pc = "done"
    /\ call.fn \in {"posterior_pdf", "prof_data"}

\* The limits chosen for the bins are equal: those given, else the least and
\* the greatest sample.
EqualLimits ==
    IF call.bin_limits # None THEN call.bin_limits[1] = call.bin_limits[2]
    ELSE /\ Len(call.parameter) > 0
         /\ \A i, j \in 1..Len(call.parameter) :
                call.parameter[i] = call.parameter[j]

TheLimit ==
    IF call.bin_limits # None THEN call.bin_limits[1] ELSE call.parameter[1]

\* The greatest entry of the pdf is exactly 1.
PeakIsOne ==
    /\ \E k \in 1..Len(ret.value.pdf) : ret.value.pdf[k] = One
    /\ \A k \in 1..Len(ret.value.pdf) : FLe(ret.value.pdf[k], One)

\* C3: with norm_area=False, on a non-empty sample with a bin count and
\* limits that can be binned, posterior_pdf returns a pdf whose greatest entry
\* is 1 or fails with EmptyDistribution, which it does when the greatest
\* weighted count is 0; it never returns a pdf whose greatest entry is not 1.
C3_PeakIsOneOrEmptyDistribution ==
    /\ pc = "done"
    /\ call.fn = "posterior_pdf"
    /\ ~call.norm_area
    /\ Len(call.parameter) > 0
    /\ HistError(call.nbins, call.bin_limits) = ""
    /\ ~EqualLimits
    => \/ ret.status = "ok" /\ PeakIsOne
       \/ ret.status = "error" /\ ret.error = "EmptyDistribution"

\* C4 as stated: binning fails when nbins <= 0 (InvalidBinCount) and fails
\* when the chosen limits are equal (DegenerateRange); no edges or centers are
\* returned then.
C4_FailsOnEqualLimits ==
    Binned =>
        /\ call.nbins <= 0 => ret.status = "error"
        /\ EqualLimits => ret.status = "error"

\* C4, amended: binning fails when nbins <= 0 and returns no edges or centers
\* then; with nbins > 0 and equal limits it does not fail for the limits: the
\* nbins bins span from half below the limit to half above it.
C4_WidensEqualLimits ==
    Binned =>
        /\ call.nbins <= 0 =>
              /\ ret.status = "error"
              /\ ret.error = "ValueError: bins must be positive"
              /\ ret.value = <<>>
        /\ call.nbins > 0 /\ EqualLimits /\ ret.status = "ok" =>
              /\ Len(ret.value.bin_edges) = call.nbins + 1
              /\ Len(ret.value.bin_centers) = call.nbins
              /\ ret.value.bin_edges[1] = FSub(ToF(TheLimit), Half)
              /\ ret.value.bin_edges[call.nbins + 1] = FAdd(ToF(TheLimit), Half)
              /\ \A k \in 1..call.nbins :
                    /\ FLt(ret.value.bin_edges[k], ret.value.bin_centers[k])
                    /\ FLt(ret.value.bin_centers[k], ret.value.bin_edges[k + 1])
        /\ call.nbins > 0 /\ EqualLimits /\ Len(call.parameter) > 0 =>
              ret.status = "ok"

\* Equal limits that were binned.
C4_Witness ==
    /\ Binned
    /\ call.nbins > 1
    /\ EqualLimits
    /\ ret.status = "ok"

(***************************************************************************)
(* Properties of posterior_median.                                         *)
(***************************************************************************)
\* The cumulative weight up to sample i, as a share of the total weight.
CumulativeShare(i) ==
    FDiv(SumUpTo(call.posterior, i), PySum(call.posterior))

FirstAtLeastHalf ==
    SetMin({i \in 1..Len(call.posterior) : FGe(CumulativeShare(i), Half)})

AtMostHalf == {i \in 1..Len(call.posterior) : FLe(CumulativeShare(i), Half)}

\* C7, for the samples whose weights add up to 1 already: for a non-empty
\* sample whose weights are not negative, posterior_median returns a value:
\* the parameter at the first sample whose cumulative share of the weight is
\* >= 0.5, averaged with the parameter at the last sample whose share is
\* <= 0.5 when the two differ.
C7_MedianReturned ==
    /\ pc = "done"
    /\ call.fn = "posterior_median"
    /\ Len(call.parameter) > 0
    /\ PySum(call.posterior) = One
    => /\ ret.status = "ok"
       /\ AtMostHalf # {} =>
            ret.value = IF SetMax(AtMostHalf) = FirstAtLeastHalf
                        THEN ToF(call.parameter[FirstAtLeastHalf])
                        ELSE FMul(Half,
                                ToF(call.parameter[FirstAtLeastHalf]
                                    + call.parameter[SetMax(AtMostHalf)]))

(***************************************************************************)
(* Properties of posterior_mode.                                           *)
(***************************************************************************)
\* The bins whose pdf is the greatest.
Modes == {k \in 1..Len(call.pdf) :
            \A j \in 1..Len(call.pdf) : FGe(call.pdf[k], call.pdf[j])}

\* The i-th of the bins of M, in ascending order.
Nth(M, i) == CHOOSE k \in M : Cardinality({j \in M : j < k}) = i - 1

\* C9: posterior_mode returns the centers of all the bins whose pdf is the
\* greatest, in ascending order of the bins, and warns exactly when they are
\* more than one, with their number.
C9_AllModes ==
    /\ pc = "done"
    /\ call.fn = "posterior_mode"
    /\ Len(call.pdf) > 0
    => /\ ret.status = "ok"
       /\ Len(ret.value) = Cardinality(Modes)
       /\ \A i \in 1..Len(ret.value) :
            ret.value[i] = call.bin_centers[Nth(Modes, i)]
       /\ Cardinality(Modes) > 1 <=> ret.warnings # <<>>
       /\ ret.warnings # <<>> =>
            /\ Len(ret.warnings) = 1
            /\ ret.warnings[1].count = Len(ret.value)

\* Two bins share the greatest pdf, a third has less.
C9_Witness ==
    /\ pc = "done"
    /\ call.fn = "posterior_mode"
    /\ ret.status = "ok"
    /\ Cardinality(Modes) = 2
    /\ Len(call.pdf) = 3
    /\ ret.warnings # <<>>

(***************************************************************************)
(* Properties of credible_region.                                          *)
(***************************************************************************)
CredibleRegionDone ==
    /\ pc = "done"
    /\ call.fn = "credible_region"
    /\ call.region \in {"lower", "upper"}

\* The share of the mass of the pdf in the bins up to k.
CumulativeMass(k) == FDiv(SumUpTo(call.pdf, k), PySum(call.pdf))

Target == IF call.region = "lower" THEN FMul(call.alpha, Half)
          ELSE FSub(One, FMul(call.alpha, Half))

Exceeding == {k \in 1..Len(call.pdf) : FGt(CumulativeMass(k), Target)}

\* C5: credible_region returns the center of the first bin whose cumulative
\* share of the mass is greater than alpha/2 ("lower") or 1 - alpha/2
\* ("upper"), and fails (RegionNotFound, the RuntimeError) when there is none,
\* as for a pdf of zeros.
C5_FirstBinExceedingTarget ==
    CredibleRegionDone =>
        IF Exceeding = {}
        THEN /\ ret.status = "error"
             /\ ret.error = "RuntimeError: Could not find credible region"
        ELSE /\ ret.status = "ok"
             /\ ret.value.credible_region = call.bin_centers[SetMin(Exceeding)]

\* A bin whose cumulative mass equals the target is passed over, and the
\* region is found further on.
C5_Witness ==
    /\ CredibleRegionDone
    /\ ret.status = "ok"
    /\ FGt(call.alpha, Zero)
    /\ \E k \in 1..Len(call.pdf) : CumulativeMass(k) = Target
    /\ ret.value.index > 1

\* The outcome of the call for the upper region on the same pdf.
Upper == credible_region(call.pdf, call.bin_centers, call.alpha, "upper")

\* C10: for a pdf of positive mass and 0 < alpha <= 1, when both regions are
\* found the bin of the lower is not after the bin of the upper, nor is its
\* center greater; at alpha = 1 both target 0.5 and return the same center.
C10_LowerNotAboveUpper ==
    /\ CredibleRegionDone
    /\ call.region = "lower"
    /\ FGt(PySum(call.pdf), Zero)
    /\ FGt(call.alpha, Zero) /\ FLe(call.alpha, One)
    /\ ret.status = "ok"
    /\ Upper.status = "ok"
    => /\ ret.value.index <= Upper.value.index
       /\ FLe(ret.value.credible_region, Upper.value.credible_region)
       /\ call.alpha = One =>
            /\ ret.value.credible_region = Upper.value.credible_region
            /\ DesiredProb(call.alpha, "lower") = Half
            /\ DesiredProb(call.alpha, "upper") = Half

\* Both regions are found, in different bins.
C10_Witness ==
    /\ CredibleRegionDone
    /\ call.region = "lower"
    /\ FGt(call.alpha, Zero) /\ FLt(call.alpha, One)
    /\ ret.status = "ok"
    /\ Upper.status = "ok"
    /\ ret.value.index < Upper.value.index

(***************************************************************************)
(* Properties of conf_interval.                                            *)
(***************************************************************************)
ConfIntervalDone ==
    /\ pc = "done"
    /\ call.fn = "conf_interval"
    /\ Len(call.chi_sq) > 0

\* chi_sq[b] less the least chi_sq is below the critical value for 1 - alpha.
BelowCritical(b) ==
    \E m \in 1..Len(call.chi_sq) :
        /\ \A j \in 1..Len(call.chi_sq) : FLe(call.chi_sq[m], call.chi_sq[j])
        /\ FLt(FSub(call.chi_sq[b], call.chi_sq[m]), Chi2Ppf(call.alpha))

\* C6: conf_interval returns an array as long as the profiled chi-squared whose
\* entry for a bin is the center of the bin if and only if its chi-squared
\* less the least one is below the critical value, and the missing-value
\* marker otherwise.
C6_BinByBin ==
    ConfIntervalDone =>
        /\ ret.status = "ok"
        /\ Len(ret.value) = Len(call.chi_sq)
        /\ \A b \in 1..Len(call.chi_sq) :
            /\ BelowCritical(b) <=> ret.value[b] = call.bin_centers[b]
            /\ ~BelowCritical(b) <=> ret.value[b] = NaN

\* Bins inside the interval on both sides of a bin outside it, at a level
\* whose critical value is finite and not 0.
C6_Witness ==
    /\ ConfIntervalDone
    /\ ret.status = "ok"
    /\ call.alpha \notin {Zero, One}
    /\ Len(call.chi_sq) = 3
    /\ IsFinite(call.chi_sq[2])
    /\ ret.value[1] # NaN /\ ret.value[2] = NaN /\ ret.value[3] # NaN

====
